---- MODULE Spec2Model ----
(***************************************************************************)
(* Model of package eidas (csr.go): the assembly of an eIDAS certificate   *)
(* signing request by GenerateCSRWithKey / GenerateCSR, and the extension  *)
(* and subject builders they call.                                         *)
(*                                                                         *)
(* One call is modelled statement by statement: pc names the statement of  *)
(* csr.go that runs next, the other variables are the call's arguments,    *)
(* its locals and its return values.  calls records, in order, every       *)
(* collaborator the call has invoked.                                      *)
(***************************************************************************)
EXTENDS Integers, Sequences, FiniteSets, TLC

VARIABLES pc, entry, args, priv, ca, qc, keyUsage, extendedKeyUsage,
          extensions, subject, req, optIdx, ret, out, calls

vars == <<pc, entry, args, priv, ca, qc, keyUsage, extendedKeyUsage,
          extensions, subject, req, optIdx, ret, out, calls>>

(***************************************************************************)
(* Bounds of the model.                                                    *)
(***************************************************************************)
\* the longest list of options a modelled call passes
MaxOpts == 2

(***************************************************************************)
(* Values.                                                                 *)
(***************************************************************************)
\* a nil []byte or a nil pointer
Nil == [nil |-> TRUE]
\* a nil slice: it has no elements
NilSlice == <<>>
\* a nil error; an error is a record with its message and the value it names
NoErr == Nil

\* x509.KeyUsage values used by the package
KeyUsageDigitalSignature == 1
KeyUsageContentCommitment == 2
KeyUsageDecipherOnly == 256

\* QC type tags of package qcstatements, and two tags outside the profile
QWACType == <<0, 4, 0, 1862, 1, 6, 3>>
QSEALType == <<0, 4, 0, 1862, 1, 6, 2>>
QCTypes == {QWACType, QSEALType, <<0, 4, 0, 1862, 1, 6, 1>>, <<>>}

tLSWWWServerAuthUsage == <<1, 3, 6, 1, 5, 5, 7, 3, 1>>
tLSWWWClientAuthUsage == <<1, 3, 6, 1, 5, 5, 7, 3, 2>>
QCStatementsExt == <<1, 3, 6, 1, 5, 5, 7, 1, 3>>
oidCountryCode == <<2, 5, 4, 6>>
oidOrganizationName == <<2, 5, 4, 10>>
oidOrganizationID == <<2, 5, 4, 97>>
oidCommonName == <<2, 5, 4, 3>>
oidKeyUsage == <<2, 5, 29, 15>>
oidExtKeyUsage == <<2, 5, 29, 37>>
oidSubjectKeyId == <<2, 5, 29, 14>>

\* a string that is not valid UTF-8, which asn1.Marshal refuses
InvalidUTF8 == "\\xff"
CountryCodes == {"GB", "ZZ"}
Strings == {"Foo Org", "Foo Org ID", "Foo Name", InvalidUTF8}
RoleLists == {<<"PSP_AI">>}
DNSDomains == {"foo.example.com", "bar.example.com"}
\* the dynamic types of priv.Public()
PublicKeyTypes == {"*rsa.PublicKey", "*ecdsa.PublicKey", "ed25519.PublicKey"}

SeqsUpTo(S, n) == UNION {[1..k -> S] : k \in 0..n}

(***************************************************************************)
(* Options.  A CertificateOption is any function on a pointer to the       *)
(* x509.CertificateRequest being built:                                    *)
(* the package's own WithDNSName, and whatever function a caller writes.   *)
(* The caller-written ones modelled here assign to one field each.         *)
(***************************************************************************)
WithDNSName(domain) == [kind |-> "WithDNSName", domain |-> domain]
CallerOption(field) == [kind |-> "caller", field |-> field]
CallerOptionFields ==
    {"Version", "RawSubject", "SignatureAlgorithm", "PublicKeyAlgorithm", "ExtraExtensions"}
CertificateOption ==
    {WithDNSName(d) : d \in DNSDomains} \cup {CallerOption(f) : f \in CallerOptionFields}

\* ApplyOption whose WithDNSName sets the name as the request's only
\* extension in place of appending it to DNSNames
ApplyOption_asExtension(opt, r) ==
    IF opt.kind = "WithDNSName"
    THEN [r EXCEPT !.DNSNames = Append(@, opt.domain),
                   !.ExtraExtensions = <<[Id |-> <<2, 5, 29, 17>>, Critical |-> FALSE,
                                          Value |-> [dnsNames |-> <<opt.domain>>]]>>]
    ELSE r

\* ApplyOption whose WithDNSName puts the domain in front of the list
ApplyOption_prepend(opt, r) ==
    IF opt.kind = "WithDNSName"
    THEN [r EXCEPT !.DNSNames = <<opt.domain>> \o @]
    ELSE r

\* opt(req): the request after the option ran on it
ApplyOption(opt, r) ==
    IF opt.kind = "WithDNSName"
    THEN [r EXCEPT !.DNSNames = Append(@, opt.domain)]
    ELSE IF opt.field = "Version" THEN [r EXCEPT !.Version = 2]
    ELSE IF opt.field = "RawSubject" THEN [r EXCEPT !.RawSubject = Nil]
    ELSE IF opt.field = "SignatureAlgorithm"
    THEN [r EXCEPT !.SignatureAlgorithm = "SHA1WithRSA"]
    ELSE IF opt.field = "PublicKeyAlgorithm"
    THEN [r EXCEPT !.PublicKeyAlgorithm = "ECDSA"]
    ELSE [r EXCEPT !.ExtraExtensions = <<>>]

(***************************************************************************)
(* Integer and DER helpers.                                                *)
(***************************************************************************)
RECURSIVE BitOr(_, _)
\* a | b on unsigned integers
BitOr(a, b) ==
    IF a = 0 THEN b
    ELSE IF b = 0 THEN a
    ELSE (IF a % 2 = 1 \/ b % 2 = 1 THEN 1 ELSE 0) + 2 * BitOr(a \div 2, b \div 2)

\* uint16(1) << (8 - uint(usage)): the unsigned shift count wraps for
\* usage > 8, and a shift of 16 or more leaves 0
ShiftedFlag(usage) ==
    IF usage <= 8 THEN (2 ^ (8 - usage)) % 65536 ELSE 0

\* the 16-bit word written big-endian
PutUint16LE_bigEndian(x) == <<(x \div 256) % 256, x % 256>>

\* binary.LittleEndian.PutUint16(b, x) on a 2-byte slice
PutUint16LE(x) == <<x % 256, (x \div 256) % 256>>

RECURSIVE Base128High(_)
\* the leading bytes of a base-128 number: each has its high bit set
Base128High(m) ==
    (IF m < 128 THEN <<>> ELSE Base128High(m \div 128)) \o <<128 + (m % 128)>>

\* the base-128 encoding of one OID arc
Base128(n) ==
    IF n < 128 THEN <<n>> ELSE Base128High(n \div 128) \o <<n % 128>>

RECURSIVE OIDArcs(_, _)
OIDArcs(oid, i) ==
    IF i > Len(oid) THEN <<>> ELSE Base128(oid[i]) \o OIDArcs(oid, i + 1)

\* asn1.Marshal of an ObjectIdentifier (at least two arcs)
MarshalOID(oid) ==
    LET content == <<40 * oid[1] + oid[2]>> \o OIDArcs(oid, 3)
    IN  <<6, Len(content)>> \o content

RECURSIVE ConcatOIDs(_, _)
ConcatOIDs(oids, i) ==
    IF i > Len(oids) THEN <<>> ELSE MarshalOID(oids[i]) \o ConcatOIDs(oids, i + 1)

\* asn1.Marshal of a []ObjectIdentifier: a SEQUENCE of the OIDs
MarshalOIDs(oids) ==
    LET content == ConcatOIDs(oids, 1)
    IN  <<48, Len(content)>> \o content

\* asn1.Marshal of a BitString: tag, length, count of padding bits, bytes
MarshalBitString(bits) ==
    <<3, Len(bits.Bytes) + 1, (8 - (bits.BitLength % 8)) % 8>> \o bits.Bytes

(***************************************************************************)
(* Extension builders.                                                     *)
(***************************************************************************)
\* keyUsageForType with a default branch in place of the error
keyUsageForType_default(t) ==
    IF t = QSEALType
    THEN [usages |-> <<KeyUsageDigitalSignature, KeyUsageContentCommitment>>,
          err |-> NoErr]
    ELSE [usages |-> <<KeyUsageDigitalSignature>>, err |-> NoErr]

keyUsageForType(t) ==
    IF t = QWACType
    THEN [usages |-> <<KeyUsageDigitalSignature>>, err |-> NoErr]
    ELSE IF t = QSEALType
    THEN [usages |-> <<KeyUsageDigitalSignature, KeyUsageContentCommitment>>,
          err |-> NoErr]
    ELSE [usages |-> NilSlice, err |-> [msg |-> "unknown QC type: ", oid |-> t]]

RECURSIVE KeyUsageWord(_, _, _)
\* the loop of keyUsageExtension: x |= 1 << (8 - usage) for each usage
KeyUsageWord(usages, i, x) ==
    IF i > Len(usages) THEN x
    ELSE KeyUsageWord(usages, i + 1, BitOr(x, ShiftedFlag(usages[i])))

\* the asn1.BitString keyUsageExtension builds
keyUsageBitString(usages) ==
    [Bytes |-> PutUint16LE(KeyUsageWord(usages, 1, 0)),
     BitLength |-> KeyUsageDecipherOnly]

keyUsageExtension(usages) ==
    [Id |-> oidKeyUsage, Critical |-> TRUE,
     Value |-> MarshalBitString(keyUsageBitString(usages))]

extendedKeyUsageForType(t) ==
    IF t = QWACType
    THEN [usages |-> <<tLSWWWServerAuthUsage, tLSWWWClientAuthUsage>>, err |-> NoErr]
    ELSE IF t = QSEALType
    THEN [usages |-> <<>>, err |-> NoErr]
    ELSE [usages |-> NilSlice, err |-> [msg |-> "unknown QC type: ", oid |-> t]]

extendedKeyUsageExtension(usages) ==
    [Id |-> oidExtKeyUsage, Critical |-> FALSE, Value |-> MarshalOIDs(usages)]

\* the SHA-1 sum of the PKCS#1 encoding of the key, as an OCTET STRING;
\* the digest is an uninterpreted function of the key
subjectKeyIdentifier(key) ==
    [Id |-> oidSubjectKeyId, Critical |-> FALSE,
     Value |-> [octetString |-> [sha1 |-> [pkcs1 |-> key.id]]]]

qcStatementsExtension(data) ==
    [Id |-> QCStatementsExt, Critical |-> FALSE, Value |-> data]

(***************************************************************************)
(* Subject builder.                                                        *)
(***************************************************************************)
\* pkix.Name.ToRDNSequence on a Name with only ExtraNames: one RDN, of one
\* attribute, per extra name, in order.  asn1.Marshal refuses a string that
\* is not valid UTF-8.
buildSubject(countryCode, orgName, commonName, orgID) ==
    LET names == << [Type |-> oidCountryCode, Value |-> countryCode],
                    [Type |-> oidOrganizationName, Value |-> orgName],
                    [Type |-> oidOrganizationID, Value |-> orgID],
                    [Type |-> oidCommonName, Value |-> commonName] >>
    IN  IF \E i \in 1..Len(names) : names[i].Value = InvalidUTF8
        THEN [bytes |-> Nil, err |-> [msg |-> "asn1: string not valid UTF-8"]]
        ELSE [bytes |-> [rdnSequence |-> [i \in 1..Len(names) |-> <<names[i]>>]],
              err |-> NoErr]

(***************************************************************************)
(* Collaborators outside csr.go.                                           *)
(***************************************************************************)
\* qcstatements.CompetentAuthorityForCountryCode
CompetentAuthorityForCountryCode(countryCode) ==
    IF countryCode = "GB"
    THEN [ca |-> [Name |-> "Financial Conduct Authority", ID |-> "GB-FCA"],
          err |-> NoErr]
    ELSE [ca |-> Nil, err |-> [msg |-> "unknown country code: ", code |-> countryCode]]

\* qcstatements.Serialize: an opaque encoding of its arguments, or an error
Serialize(roles, authority, t, ok) ==
    IF ok
    THEN [bytes |-> [qcStatements |-> [Roles |-> roles, CA |-> authority, Type |-> t]],
          err |-> NoErr]
    ELSE [bytes |-> Nil, err |-> [msg |-> "qcstatements: failed to serialize"]]

RECURSIVE Flatten(_, _)
\* the attributes of an RDN sequence, in order (csr.Subject.Names)
Flatten(rdns, i) ==
    IF i > Len(rdns) THEN <<>> ELSE rdns[i] \o Flatten(rdns, i + 1)

oidSubjectAltName == <<2, 5, 29, 17>>

\* x509.CreateCertificateRequest(rand.Reader, req, priv), given as the parsed
\* request: the version written is always 0, RawSubject is used when it is
\* not empty, the public-key algorithm is that of the key, and the DNS names
\* become a subject-alternative-name extension in front of the
\* ExtraExtensions; ok is whether the signer succeeds
CreateCertificateRequest(r, key, ok) ==
    IF ok
    THEN [bytes |-> [Version |-> 0,
                     Names |-> IF r.RawSubject = Nil THEN <<>>
                               ELSE Flatten(r.RawSubject.rdnSequence, 1),
                     SignatureAlgorithm |-> r.SignatureAlgorithm,
                     PublicKeyAlgorithm |-> "RSA",
                     Extensions |->
                         (IF Len(r.DNSNames) > 0
                          THEN <<[Id |-> oidSubjectAltName, Critical |-> FALSE,
                                  Value |-> [dnsNames |-> r.DNSNames]]>>
                          ELSE <<>>) \o r.ExtraExtensions,
                     PublicKey |-> key.id],
          err |-> NoErr]
    ELSE [bytes |-> Nil, err |-> [msg |-> "x509: signing failed"]]

\* csr.DNSNames of x509.ParseCertificateRequest: the names of the
\* subject-alternative-name extension, none when there is no such extension
ParsedDNSNames(csr) ==
    IF \E i \in 1..Len(csr.Extensions) : csr.Extensions[i].Id = oidSubjectAltName
    THEN LET i == CHOOSE i \in 1..Len(csr.Extensions) :
                      csr.Extensions[i].Id = oidSubjectAltName
         IN  csr.Extensions[i].Value.dnsNames
    ELSE <<>>

(***************************************************************************)
(* The state machine: one call of an entry point, statement by statement.  *)
(***************************************************************************)
RSAPublicKey == "*rsa.PublicKey"

Init ==
    /\ pc = "idle"
    /\ entry = "none"
    /\ args = Nil
    /\ priv = Nil
    /\ ca = Nil
    /\ qc = Nil
    /\ keyUsage = NilSlice
    /\ extendedKeyUsage = NilSlice
    /\ extensions = NilSlice
    /\ subject = Nil
    /\ req = Nil
    /\ optIdx = 0
    /\ ret = Nil
    /\ out = Nil
    /\ calls = <<>>

\* the arguments a caller may pass
Arguments ==
    [countryCode : CountryCodes, orgName : Strings, orgID : Strings,
     commonName : Strings, roles : RoleLists, qcType : QCTypes,
     opts : SeqsUpTo(CertificateOption, MaxOpts)]

\* the locals of a call before its first statement
FreshLocals ==
    /\ ca' = Nil
    /\ qc' = Nil
    /\ keyUsage' = NilSlice
    /\ extendedKeyUsage' = NilSlice
    /\ extensions' = NilSlice
    /\ subject' = Nil
    /\ req' = Nil
    /\ optIdx' = 0
    /\ ret' = Nil
    /\ out' = Nil
    /\ calls' = <<>>

\* a caller invokes GenerateCSRWithKey with a key of its own
CallGenerateCSRWithKey ==
    /\ pc = "idle"
    /\ \E a \in Arguments, kt \in PublicKeyTypes :
          /\ args' = a
          /\ priv' = [type |-> kt, id |-> "supplied"]
    /\ entry' = "GenerateCSRWithKey"
    /\ pc' = "checkKey"
    /\ FreshLocals

\* a caller invokes GenerateCSR
CallGenerateCSR ==
    /\ pc = "idle"
    /\ \E a \in Arguments : args' = a
    /\ priv' = Nil
    /\ entry' = "GenerateCSR"
    /\ pc' = "generateKey"
    /\ FreshLocals

\* GenerateCSRWithKey returns (bytes, err), to its caller or to GenerateCSR
Return(bytes, err) ==
    /\ ret' = [bytes |-> bytes, err |-> err]
    /\ pc' = IF entry = "GenerateCSR" THEN "forward" ELSE "done"

\* GenerateCSR: key, err := rsa.GenerateKey(rand.Reader, 2048)
GenerateKey ==
    /\ pc = "generateKey"
    /\ calls' = Append(calls, "rsa.GenerateKey")
    /\ \E ok \in BOOLEAN :
          IF ok
          THEN /\ priv' = [type |-> RSAPublicKey, id |-> "generated"]
               /\ pc' = "checkKey"
               /\ out' = out
          ELSE /\ out' = [bytes |-> Nil, key |-> Nil,
                          err |-> [msg |-> "failed to generate key pair: ",
                                   cause |-> "entropy"]]
               /\ pc' = "done"
               /\ priv' = priv
    /\ UNCHANGED <<entry, args, ca, qc, keyUsage, extendedKeyUsage, extensions,
                   subject, req, optIdx, ret>>

\* UnsupportedKeyError formatting the static type in place of the dynamic one
UnsupportedKeyError_static(key) ==
    [msg |-> "only RSA keys are currently supported but got: ",
     type |-> "crypto.PublicKey"]

\* fmt.Errorf("only RSA keys are currently supported but got: %T", priv.Public())
UnsupportedKeyError(key) ==
    [msg |-> "only RSA keys are currently supported but got: ", type |-> key.type]

\* if _, ok := priv.Public() is not an RSA public key; !ok { return nil, ... }
CheckKey ==
    /\ pc = "checkKey"
    /\ IF priv.type # RSAPublicKey
       THEN Return(Nil, UnsupportedKeyError(priv))
       ELSE pc' = "lookup" /\ ret' = ret
    /\ UNCHANGED <<entry, args, priv, ca, qc, keyUsage, extendedKeyUsage,
                   extensions, subject, req, optIdx, out, calls>>

\* ca, err := qcstatements.CompetentAuthorityForCountryCode(countryCode)
LookupAuthority ==
    /\ pc = "lookup"
    /\ calls' = Append(calls, "CompetentAuthorityForCountryCode")
    /\ LET r == CompetentAuthorityForCountryCode(args.countryCode)
       IN  IF r.err # NoErr
           THEN Return(Nil, [msg |-> "eidas: ", cause |-> r.err]) /\ ca' = ca
           ELSE ca' = r.ca /\ pc' = "serialize" /\ ret' = ret
    /\ UNCHANGED <<entry, args, priv, qc, keyUsage, extendedKeyUsage, extensions,
                   subject, req, optIdx, out>>

\* qc, err := qcstatements.Serialize(roles, *ca, qcType)
SerializeStatements ==
    /\ pc = "serialize"
    /\ calls' = Append(calls, "Serialize")
    /\ \E ok \in BOOLEAN :
          LET r == Serialize(args.roles, ca, args.qcType, ok)
          IN  IF r.err # NoErr
              THEN Return(Nil, [msg |-> "eidas: ", cause |-> r.err]) /\ qc' = qc
              ELSE qc' = r.bytes /\ pc' = "keyUsage" /\ ret' = ret
    /\ UNCHANGED <<entry, args, priv, ca, keyUsage, extendedKeyUsage, extensions,
                   subject, req, optIdx, out>>

\* keyUsage, err := keyUsageForType(qcType)
LookupKeyUsage ==
    /\ pc = "keyUsage"
    /\ LET r == keyUsageForType(args.qcType)
       IN  IF r.err # NoErr
           THEN Return(Nil, r.err) /\ keyUsage' = keyUsage
           ELSE keyUsage' = r.usages /\ pc' = "extendedKeyUsage" /\ ret' = ret
    /\ UNCHANGED <<entry, args, priv, ca, qc, extendedKeyUsage, extensions,
                   subject, req, optIdx, out, calls>>

\* extendedKeyUsage, err := extendedKeyUsageForType(qcType)
LookupExtendedKeyUsage ==
    /\ pc = "extendedKeyUsage"
    /\ LET r == extendedKeyUsageForType(args.qcType)
       IN  IF r.err # NoErr
           THEN Return(Nil, r.err) /\ extendedKeyUsage' = extendedKeyUsage
           ELSE extendedKeyUsage' = r.usages /\ pc' = "extensions" /\ ret' = ret
    /\ UNCHANGED <<entry, args, priv, ca, qc, keyUsage, extensions, subject, req,
                   optIdx, out, calls>>

\* AssembleExtensions without the test for an empty extended-key-usage list
AssembleExtensions_alwaysEKU(usages, extUsages, key, data) ==
    <<keyUsageExtension(usages), extendedKeyUsageExtension(extUsages),
      subjectKeyIdentifier(key), qcStatementsExtension(data)>>

\* the extension list of GenerateCSRWithKey, in the order it appends
AssembleExtensions(usages, extUsages, key, data) ==
    <<keyUsageExtension(usages)>>
    \o (IF Len(extUsages) # 0 THEN <<extendedKeyUsageExtension(extUsages)>> ELSE <<>>)
    \o <<subjectKeyIdentifier(key), qcStatementsExtension(data)>>

\* extensions := ...; extensions = append(extensions, ...)
BuildExtensions ==
    /\ pc = "extensions"
    /\ extensions' = AssembleExtensions(keyUsage, extendedKeyUsage, priv, qc)
    /\ pc' = "subject"
    /\ UNCHANGED <<entry, args, priv, ca, qc, keyUsage, extendedKeyUsage, subject,
                   req, optIdx, ret, out, calls>>

\* SubjectOf with the arguments in the order of the entry point's parameters
SubjectOf_entryOrder(a) == buildSubject(a.countryCode, a.orgName, a.orgID, a.commonName)

\* the call GenerateCSRWithKey makes of buildSubject
SubjectOf(a) == buildSubject(a.countryCode, a.orgName, a.commonName, a.orgID)

\* subject, err := buildSubject(countryCode, orgName, commonName, orgID)
BuildSubject ==
    /\ pc = "subject"
    /\ LET r == SubjectOf(args)
       IN  IF r.err # NoErr
           THEN Return(Nil, [msg |-> "failed to build CSR subject: ", cause |-> r.err])
                /\ subject' = subject
           ELSE subject' = r.bytes /\ pc' = "request" /\ ret' = ret
    /\ UNCHANGED <<entry, args, priv, ca, qc, keyUsage, extendedKeyUsage,
                   extensions, req, optIdx, out, calls>>

\* the x509.CertificateRequest literal of GenerateCSRWithKey
NewCertificateRequest(subj, exts) ==
    [Version |-> 0,
     RawSubject |-> subj,
     SignatureAlgorithm |-> "SHA256WithRSA",
     PublicKeyAlgorithm |-> "RSA",
     ExtraExtensions |-> exts,
     DNSNames |-> <<>>]

\* req := &x509.CertificateRequest{...}
BuildRequest ==
    /\ pc = "request"
    /\ req' = NewCertificateRequest(subject, extensions)
    /\ pc' = "options"
    /\ UNCHANGED <<entry, args, priv, ca, qc, keyUsage, extendedKeyUsage,
                   extensions, subject, optIdx, ret, out, calls>>

\* for _, opt := range opts { opt(req) }: one iteration
RunOption ==
    /\ pc = "options"
    /\ optIdx < Len(args.opts)
    /\ req' = ApplyOption(args.opts[optIdx + 1], req)
    /\ optIdx' = optIdx + 1
    /\ calls' = Append(calls, "opt")
    /\ UNCHANGED <<pc, entry, args, priv, ca, qc, keyUsage, extendedKeyUsage,
                   extensions, subject, ret, out>>

\* csr, err := x509.CreateCertificateRequest(rand.Reader, req, priv)
Sign ==
    /\ pc = "options"
    /\ optIdx = Len(args.opts)
    /\ calls' = Append(calls, "CreateCertificateRequest")
    /\ \E ok \in BOOLEAN :
          LET r == CreateCertificateRequest(req, priv, ok)
          IN  IF r.err # NoErr
              THEN Return(Nil, [msg |-> "failed to generate csr: ", cause |-> r.err])
              ELSE Return(r.bytes, r.err)
    /\ UNCHANGED <<entry, args, priv, ca, qc, keyUsage, extendedKeyUsage,
                   extensions, subject, req, optIdx, out>>

\* GenerateCSRResult returning the generated key beside the error
GenerateCSRResult_keepsKey(r, key) ==
    [bytes |-> r.bytes, key |-> key, err |-> r.err]

\* GenerateCSR: if err != nil { return nil, nil, err }; return csr, key, nil
GenerateCSRResult(r, key) ==
    IF r.err # NoErr
    THEN [bytes |-> Nil, key |-> Nil, err |-> r.err]
    ELSE [bytes |-> r.bytes, key |-> key, err |-> NoErr]

\* GenerateCSR: csr, err := GenerateCSRWithKey(...) has returned
Forward ==
    /\ pc = "forward"
    /\ out' = GenerateCSRResult(ret, priv)
    /\ pc' = "done"
    /\ UNCHANGED <<entry, args, priv, ca, qc, keyUsage, extendedKeyUsage,
                   extensions, subject, req, optIdx, ret, calls>>

Next ==
    \/ CallGenerateCSRWithKey
    \/ CallGenerateCSR
    \/ GenerateKey
    \/ CheckKey
    \/ LookupAuthority
    \/ SerializeStatements
    \/ LookupKeyUsage
    \/ LookupExtendedKeyUsage
    \/ BuildExtensions
    \/ BuildSubject
    \/ BuildRequest
    \/ RunOption
    \/ Sign
    \/ Forward

Spec == Init /\ [][Next]_vars

(***************************************************************************)
(* Properties.                                                             *)
(***************************************************************************)
\* GenerateCSRWithKey has returned without an error
WithKeySucceeded == ret # Nil /\ ret.err = NoErr
\* GenerateCSR has returned without an error
GenerateSucceeded == out # Nil /\ out.err = NoErr

\* no option of the call assigns to the subject
NoOptionTouchesSubject ==
    \A i \in 1..Len(args.opts) : args.opts[i] # CallerOption("RawSubject")

\* every option of the call is a WithDNSName
OnlyDNSOptions ==
    \A i \in 1..Len(args.opts) : args.opts[i].kind = "WithDNSName"

\* the subject of a produced request is the four attributes, in order
SubjectAsSupplied(csr) ==
    /\ Len(csr.Names) = 4
    /\ [i \in 1..4 |-> csr.Names[i].Type]
          = << <<2, 5, 4, 6>>, <<2, 5, 4, 10>>, <<2, 5, 4, 97>>, <<2, 5, 4, 3>> >>
    /\ [i \in 1..4 |-> csr.Names[i].Value]
          = <<args.countryCode, args.orgName, args.orgID, args.commonName>>

\* C1: every successful GenerateCSRWithKey or GenerateCSR whose options leave
\* the subject alone produces a request whose subject is exactly the four
\* attributes 2.5.4.6, 2.5.4.10, 2.5.4.97, 2.5.4.3, in this order, with the
\* values countryCode, orgName, orgID, commonName position by position.
C1_SubjectOrder ==
    /\ (WithKeySucceeded /\ NoOptionTouchesSubject) => SubjectAsSupplied(ret.bytes)
    /\ (GenerateSucceeded /\ NoOptionTouchesSubject) => SubjectAsSupplied(out.bytes)

\* a successful GenerateCSR with four pairwise different strings and options
C1_Witness ==
    /\ GenerateSucceeded
    /\ NoOptionTouchesSubject
    /\ Len(args.opts) > 0
    /\ Cardinality({args.countryCode, args.orgName, args.orgID, args.commonName}) = 4

\* the identifiers and critical flags of an extension list, in order
ExtensionIds(exts) == [i \in 1..Len(exts) |-> exts[i].Id]
ExtensionCritical(exts) == [i \in 1..Len(exts) |-> exts[i].Critical]

\* the DER encoding of SEQUENCE { 1.3.6.1.5.5.7.3.1, 1.3.6.1.5.5.7.3.2 }
ServerThenClientAuthDER ==
    <<48, 20, 6, 8, 43, 6, 1, 5, 5, 7, 3, 1, 6, 8, 43, 6, 1, 5, 5, 7, 3, 2>>

\* the extension list the profile asks for, by type
MandatoryExtensionShape(exts) ==
    /\ IF args.qcType = QWACType
       THEN /\ ExtensionIds(exts) = << <<2, 5, 29, 15>>, <<2, 5, 29, 37>>,
                                      <<2, 5, 29, 14>>, <<1, 3, 6, 1, 5, 5, 7, 1, 3>> >>
            /\ ExtensionCritical(exts) = <<TRUE, FALSE, FALSE, FALSE>>
            /\ exts[2].Value = ServerThenClientAuthDER
       ELSE /\ args.qcType = QSEALType
            /\ ExtensionIds(exts) = << <<2, 5, 29, 15>>, <<2, 5, 29, 14>>,
                                      <<1, 3, 6, 1, 5, 5, 7, 1, 3>> >>
            /\ ExtensionCritical(exts) = <<TRUE, FALSE, FALSE>>
    /\ \A i, j \in 1..Len(exts) : exts[i].Id = exts[j].Id => i = j

\* C2: the extension list the assembler builds and puts into the request is
\* key-usage (critical), extended-key-usage (only for QWAC, carrying
\* ServerAuth then ClientAuth), subject-key-identifier, qc-statements, in this
\* order; QSEAL has no extended-key-usage entry, and no OID occurs twice.
C2_ExtensionOrder ==
    /\ extensions # NilSlice => MandatoryExtensionShape(extensions)
    /\ (req # Nil /\ optIdx = 0) => MandatoryExtensionShape(req.ExtraExtensions)
    /\ (WithKeySucceeded /\ OnlyDNSOptions) => MandatoryExtensionShape(req.ExtraExtensions)

\* a successful QSEAL call: three extensions, none of them extended-key-usage
C2_Witness ==
    /\ WithKeySucceeded
    /\ args.qcType = QSEALType
    /\ OnlyDNSOptions
    /\ Len(req.ExtraExtensions) = 3

\* err is the error of the type lookups for tag t
IsUnknownTypeError(err, t) ==
    /\ err # NoErr
    /\ err.msg = "unknown QC type: "
    /\ err.oid = t

\* the call is past the key-usage lookup, or has returned from it
PastKeyUsageLookup ==
    pc \notin {"idle", "generateKey", "checkKey", "lookup", "serialize", "keyUsage"}
    /\ qc # Nil

\* C3: keyUsageForType returns [DigitalSignature] for QWAC,
\* [DigitalSignature, NonRepudiation] for QSEAL and an error with no list for
\* every other tag; extendedKeyUsageForType fails on exactly the same tags.
C3_KeyUsageForType ==
    /\ (PastKeyUsageLookup /\ args.qcType = QWACType) => keyUsage = <<1>>
    /\ (PastKeyUsageLookup /\ args.qcType = QSEALType) => keyUsage = <<1, 2>>
    /\ (PastKeyUsageLookup /\ args.qcType \notin {QWACType, QSEALType}) =>
          /\ keyUsage = NilSlice
          /\ ret # Nil
          /\ ret.bytes = Nil
          /\ IsUnknownTypeError(ret.err, args.qcType)
    /\ \A t \in QCTypes :
          /\ (keyUsageForType(t).err = NoErr) <=> (extendedKeyUsageForType(t).err = NoErr)
          /\ keyUsageForType(t).err # NoErr => keyUsageForType(t).usages = NilSlice
    /\ extendedKeyUsage # NilSlice => keyUsage # NilSlice

\* a call with a tag outside {QWAC, QSEAL} was rejected by the lookup
C3_Witness ==
    /\ ret # Nil
    /\ IsUnknownTypeError(ret.err, args.qcType)
    /\ args.qcType \notin {QWACType, QSEALType}
    /\ keyUsage = NilSlice

\* C4: with a signing key whose public component is not RSA,
\* GenerateCSRWithKey fails with the unsupported-key-type error naming the
\* concrete type, whatever the other arguments, and invokes neither the
\* authority lookup, the QC-statement encoder, an option nor the signer.
C4_NonRSAKeyRejectedFirst ==
    (priv # Nil /\ priv.type # "*rsa.PublicKey" /\ pc # "checkKey") =>
        /\ pc = "done"
        /\ ret = [bytes |-> Nil,
                  err |-> [msg |-> "only RSA keys are currently supported but got: ",
                           type |-> priv.type]]
        /\ calls = <<>>
        /\ ca = Nil /\ qc = Nil /\ req = Nil

\* an ECDSA key was rejected although the country is unknown, the type is
\* invalid and options were passed
C4_Witness ==
    /\ pc = "done"
    /\ priv # Nil
    /\ priv.type = "*ecdsa.PublicKey"
    /\ args.countryCode = "ZZ"
    /\ args.qcType \notin {QWACType, QSEALType}
    /\ Len(args.opts) > 0
    /\ ret # Nil

\* C5: output and error are mutually exclusive: an error of
\* GenerateCSRWithKey comes with nil bytes, an error of GenerateCSR with nil
\* bytes and a nil key, and a nil error with non-nil bytes (and key).
C5_OutputXorError ==
    /\ ret # Nil =>
          /\ ret.err # NoErr => ret.bytes = Nil
          /\ ret.err = NoErr => ret.bytes # Nil
    /\ out # Nil =>
          /\ out.err # NoErr => (out.bytes = Nil /\ out.key = Nil)
          /\ out.err = NoErr => (out.bytes # Nil /\ out.key # Nil)

\* GenerateCSR forwarded an error of GenerateCSRWithKey
C5_Witness ==
    /\ out # Nil
    /\ ret # Nil
    /\ out.err # NoErr
    /\ out.err = ret.err

\* the request is the one handed to the signer: every option has run
HandedToSigner == pc = "options" /\ optIdx = Len(args.opts)

\* the mandatory fields of the request are as the assembler set them
MandatoryFieldsKept ==
    /\ req.Version = 0
    /\ req.RawSubject = subject
    /\ req.SignatureAlgorithm = "SHA256WithRSA"
    /\ req.PublicKeyAlgorithm = "RSA"
    /\ req.ExtraExtensions = extensions

\* C6 as stated: for every sequence of options, any function of type
\* CertificateOption included, the request handed to the signer has the
\* version, subject, signature algorithm, public-key algorithm and mandatory
\* extensions exactly as the assembler set them.
C6_AnyOptionKeepsMandatoryFields ==
    HandedToSigner => MandatoryFieldsKept

\* C6 as amended: for every sequence of WithDNSName options, the request
\* handed to the signer, and the request after each option, has the version,
\* subject, signature algorithm, public-key algorithm and mandatory
\* extensions exactly as the assembler set them.
C6_DNSOptionsKeepMandatoryFields ==
    (req # Nil /\ \A i \in 1..optIdx : args.opts[i].kind = "WithDNSName")
        => MandatoryFieldsKept

\* two WithDNSName options have run and the request is handed to the signer
C6_Witness ==
    /\ HandedToSigner
    /\ OnlyDNSOptions
    /\ Len(args.opts) = 2
    /\ Len(req.DNSNames) = 2

\* the domains of the options of the call, in the order given
DomainsGiven == [i \in 1..Len(args.opts) |-> args.opts[i].domain]

\* C7: with options WithDNSName(d1), ..., WithDNSName(dn), the DNS
\* subject-alternative-name list of the request GenerateCSRWithKey or
\* GenerateCSR produces is [d1, ..., dn]: same order, same multiplicity, and
\* empty when there is no such option.
C7_DNSNamesInOrder ==
    /\ (WithKeySucceeded /\ OnlyDNSOptions) => ParsedDNSNames(ret.bytes) = DomainsGiven
    /\ (GenerateSucceeded /\ OnlyDNSOptions) => ParsedDNSNames(out.bytes) = DomainsGiven

\* GenerateCSR succeeded with two different domains and the request lists
\* them as given
C7_Witness ==
    /\ GenerateSucceeded
    /\ args.opts = <<WithDNSName("foo.example.com"), WithDNSName("bar.example.com")>>
    /\ ParsedDNSNames(out.bytes) = <<"foo.example.com", "bar.example.com">>

\* byte b has the bit of weight 2^(7 - k) set: bit k, counted from the most
\* significant bit
BitOfByte(b, k) == (b \div (2 ^ (7 - k))) % 2 = 1

\* the bits a DER BIT STRING asserts, bit 0 being the most significant bit
\* of the first payload byte; der is tag, length, padding count, payload
AssertedBits(der) ==
    {n \in 0..(8 * (Len(der) - 3) - 1) : BitOfByte(der[4 + (n \div 8)], n % 8)}

\* the key-usage extension has been built
KeyUsageBuilt == extensions # NilSlice

\* C8 (the README's key-usage table): the key-usage extension asserts Digital
\* Signature (bit 0) and Non Repudiation (bit 1) for QWAC, and only Digital
\* Signature for QSEAL.
C8_ReadmeKeyUsageTable ==
    KeyUsageBuilt =>
        /\ args.qcType = QWACType => AssertedBits(extensions[1].Value) = {0, 1}
        /\ args.qcType = QSEALType => AssertedBits(extensions[1].Value) = {0}

\* C9: the payload bytes keyUsageExtension packs have DigitalSignature at
\* 0x80 of byte 0 and NonRepudiation at 0x40 of byte 0 and every other bit
\* zero: byte 0 is 0x80 for QWAC and 0xC0 for QSEAL, the second byte is 0.
C9_KeyUsagePayloadBits ==
    KeyUsageBuilt =>
        LET payload == keyUsageBitString(keyUsage).Bytes
            der == extensions[1].Value
        IN  /\ payload = SubSeq(der, 4, Len(der))
            /\ Len(payload) = 2
            /\ payload[1] = (IF args.qcType = QWACType THEN 128 ELSE 192)
            /\ payload[2] = 0
            /\ \A i \in 1..Len(keyUsage) :
                  /\ keyUsage[i] = 1 => BitOfByte(payload[1], 0)
                  /\ keyUsage[i] = 2 => BitOfByte(payload[1], 1)

\* the extension of a QSEAL request has been built: both flags are packed
C9_Witness ==
    /\ KeyUsageBuilt
    /\ args.qcType = QSEALType
    /\ extensions[1].Value[4] = 192

\* the index of the highest flag of a list of x509.KeyUsage values: the
\* value 2^k is flag k
HighestFlag(usages) ==
    CHOOSE k \in 0..8 :
        /\ \E i \in 1..Len(usages) : usages[i] = 2 ^ k
        /\ \A i \in 1..Len(usages) : usages[i] <= 2 ^ k

\* C10: the bit string keyUsageExtension builds is canonical: its declared
\* bit length is the index of the highest set flag plus one (1 for QWAC, 2
\* for QSEAL), it is at most 8 times the number of payload bytes, and the
\* payload has no trailing all-zero byte.
C10_CanonicalBitString ==
    KeyUsageBuilt =>
        LET bits == keyUsageBitString(keyUsage)
        IN  /\ bits.BitLength = HighestFlag(keyUsage) + 1
            /\ bits.BitLength <= 8 * Len(bits.Bytes)
            /\ bits.Bytes[Len(bits.Bytes)] # 0

====
